---- MODULE Spec2Model ----
(***************************************************************************)
(* A model of the mysgm agent (src/workspace/mysgm/src/main.rs): every     *)
(* invocation loads the agent state, runs the SyncLoop (Phase A key        *)
(* packages, Phase B welcomes, Phase C commits), executes one command and  *)
(* saves the state.  Agents are separate processes that share only the     *)
(* rendezvous store, so one action is one store operation of one agent     *)
(* together with the local computation that follows it.                    *)
(*                                                                         *)
(* The MLS library is outside the repository.  A group epoch is modelled   *)
(* by the sequence of commits that produced it (hist); every secret        *)
(* exported from an epoch is an injective function of (gid, hist).         *)
(***************************************************************************)
EXTENDS Integers, Sequences, FiniteSets, TLC

\* ------------------------------------------------------------------ bounds
\* Key packages ever published where the agents also run groups.
MaxKp == 1
\* Key packages ever published where the agents only advertise, or race on the
\* DHT adapter.
MaxAdv == 2
\* Values the wm<N> namespace may hold (welcomes ever published).
MaxWm == 1
\* Commits a single group id may have in the store.
MaxEpoch == 2
\* Times one group id may be created.
MaxCreate == 1
\* Values the DHT keeps under one key.
MaxVals == 2
\* Elements of a JSON array the DHT gateway answers with.
MaxElems == 2

Agents == {"A", "B"}
Labels == {"g"}

\* Option<T>: None is the empty tuple, Some(v) the one-element tuple.
None == <<>>
Some(v) == <<v>>

\* ---------------------------------------------------------------- identity
\* main.rs 188-195: pid = "<--pid>_<3 hex digits of the public key>".  Distinct
\* agents hold distinct key pairs; the model names the pid after the agent.
my_pid(a) == a

\* main.rs 393-400: gid_transformed = "<label>_<3 hex digits of own public key>".
gid_transformed(label, a) == <<label, a>>

Gids == {gid_transformed(l, a) : l \in Labels, a \in Agents}

\* ------------------------------------------------------------- store keys
key_package_key(i) == <<"kp", i>>
welcome_message_key(i) == <<"wm", i>>

\* ------------------------------------------------------------ agent state
\* MySgmState::new (main.rs 196-201): counters 0, empty directory, no group
\* ids, empty MLS storage (groups: group records, kps: own key packages).
MySgmStateNew ==
  [ key_package_counter |-> 0,
    welcome_counter     |-> 0,
    key_packages        |-> [p \in Agents |-> None],
    gids                |-> <<>>,
    groups              |-> [g \in Gids |-> None],
    kps                 |-> {} ]

increment_key_package_counter(st) ==
  [st EXCEPT !.key_package_counter = @ + 1]

increment_welcome_counter(st) ==
  [st EXCEPT !.welcome_counter = @ + 1]

set_key_package(st, pid, kp) ==
  [st EXCEPT !.key_packages[pid] = Some(kp)]

InSeq(x, s) == \E i \in 1..Len(s) : s[i] = x

add_gid(st, gid) ==
  IF InSeq(gid, st.gids) THEN st ELSE [st EXCEPT !.gids = Append(@, gid)]

remove_gid(st, gid) ==
  [st EXCEPT !.gids = SelectSeq(@, LAMBDA x : x # gid)]

\* ------------------------------------------------------------ MLS groups
\* A group record of the MLS storage map.
NewGroup(a, n) ==
  [ hist    |-> << [by |-> a, kind |-> "create", who |-> "-", n |-> n] >>,
    members |-> {my_pid(a)},
    active  |-> TRUE ]

\* commit_key (main.rs 143-148): "cm" + hex(export_secret("post_commit", 32)).
\* export_secret fails on a group the agent was evicted from; otherwise the
\* secret is a function of the epoch.
commit_key_ok(g) == g.active

\* group.export_secret(provider, label, &[], length) (main.rs 146, 464): the
\* exporter of the epoch, evaluated at a label and a length.
export_secret(gid, hist, label, length) == <<gid, hist, label, length>>

CmKey(gid, hist) == <<"cm", export_secret(gid, hist, "post_commit", 32)>>
commit_key(gid, g) == CmKey(gid, g.hist)

\* The members after a commit.
MembersAfter(members, c) ==
  CASE c.kind = "add"    -> members \cup {c.who}
    [] c.kind = "remove" -> members \ {c.who}
    [] OTHER             -> members

\* merge_staged_commit / merge_pending_commit: the epoch advances; a commit
\* that removes the agent itself leaves the group inactive.
MergeCommit(g, c, me) ==
  [ hist    |-> Append(g.hist, c),
    members |-> MembersAfter(g.members, c),
    active  |-> ~(c.kind = "remove" /\ c.who = me) ]

\* process_message (main.rs 338): a member cannot process its own commit.
process_message_ok(c, me) == c.by # me

VARIABLES
  store,    \* rendezvous store: key -> sequence of values (get reads the first)
  saved,    \* saved[a]: the state file of agent a
  work,     \* work[a]: the in-memory state of a's running invocation
  pc,       \* pc[a]: position of a's invocation
  cmd,      \* cmd[a]: the command of a's invocation
  index,    \* index[a]: the local slot index of a publish loop
  todo,     \* todo[a]: group ids Phase C has still to visit
  pend,     \* pend[a]: messages built by the command, not yet published
  sub,      \* sub[a]: position inside the DHT adapter's put_checked
  nkp,      \* key packages built so far (fresh key material)
  nonce,    \* nonce[gid]: groups created so far under gid (fresh group secrets)
  lost,     \* history: the commit key a's last invocation lost the race on
  due,      \* history: removals of a the store held when a's invocation began
  fatal,    \* history: the store fault a's last invocation halted on ("": none)
  reset,    \* reset[a]: the invocation of a was started with --reset
  io,       \* history: the calls a's last put_checked on the DHT made, its result
  http,     \* a response of the DHT gateway to a GET and what get makes of it
  mls       \* mls[a]: what the MLS library answered in a's last Phase C step

vars == <<store, saved, work, pc, cmd, index, todo, pend, sub, nkp, nonce, lost, due,
          fatal, reset, io, http, mls>>

NoCmd == [name |-> "none", gid |-> <<"-", "-">>, who |-> "-"]
\* No GET is under way.
NoHttp == [status |-> 0, body |-> [kind |-> "empty", elems |-> <<>>], result |-> <<>>]
\* No put_checked on the DHT yet.
NoIo == [calls |-> <<>>, res |-> "-"]
\* No answer of the MLS library in Phase C yet.
NoMls == [at |-> "-", err |-> "", gid |-> <<"-", "-">>]
NoPend == [kp |-> None, commit |-> None, welcome |-> None]

\* ------------------------------------------------------------ the adapter
\* StorageAdapter::get (main.rs 110-133).
get(key) == IF key \in DOMAIN store THEN Some(Head(store[key])) ELSE None

\* Values stored under keys of one namespace.
Stored(ns) ==
  LET ks == {k \in DOMAIN store : k[1] = ns}
      RECURSIVE Sum(_)
      Sum(S) == IF S = {} THEN 0
                ELSE LET k == CHOOSE x \in S : TRUE
                     IN Len(store[k]) + Sum(S \ {k})
  IN Sum(ks)

\* Publications under way: built by a command and not yet in the store.
InFlightKp == Cardinality({a \in Agents : pend[a].kp # None})
InFlightWm == Cardinality({a \in Agents : pend[a].welcome # None})

Init ==
  /\ store = << >>
  /\ saved = [a \in Agents |-> MySgmStateNew]
  /\ work = [a \in Agents |-> MySgmStateNew]
  /\ pc = [a \in Agents |-> "idle"]
  /\ cmd = [a \in Agents |-> NoCmd]
  /\ index = [a \in Agents |-> 0]
  /\ todo = [a \in Agents |-> <<>>]
  /\ pend = [a \in Agents |-> NoPend]
  /\ sub = [a \in Agents |-> "get"]
  /\ nkp = 0
  /\ nonce = [g \in Gids |-> 0]
  /\ lost = [a \in Agents |-> None]
  /\ due = [a \in Agents |-> {}]
  /\ fatal = [a \in Agents |-> ""]
  /\ reset = [a \in Agents |-> FALSE]
  /\ io = [a \in Agents |-> NoIo]
  /\ http = NoHttp
  /\ mls = [a \in Agents |-> NoMls]


IsPrefix(s, t) == Len(s) <= Len(t) /\ SubSeq(t, 1, Len(s)) = s

\* The epoch (if any) at which the store's commit chain, followed from epoch h
\* by the member me, removes me.  A member's own commit stops the walk.
RECURSIVE RemovalPoint(_, _, _)
RemovalPoint(me, gid, h) ==
  LET r == get(CmKey(gid, h)) IN
  IF r = None THEN None
  ELSE IF ~process_message_ok(r[1], me) THEN None
  ELSE IF r[1].kind = "remove" /\ r[1].who = me THEN Some(h)
  ELSE RemovalPoint(me, gid, Append(h, r[1]))

\* ------------------------------------------------------------- invocation
\* The commands of the CLI (main.rs 68-102) the agents are given.
C(n, g, w) == [name |-> n, gid |-> g, who |-> w]
GA == gid_transformed("g", "A")
Cmds(a) ==
  {C("Groups", NoCmd.gid, "-"), C("Advertise", NoCmd.gid, "-"),
   C("ExportSecret", GA, "-"), C("Update", GA, "-")}
  \cup (IF a = "A"
        THEN {C("CreateGroup", <<"g", "-">>, "-"), C("Add", GA, "B"), C("Remove", GA, "B")}
        ELSE {C("Remove", GA, "A")})

\* The commands of agents that only advertise.
KpCmds == {C("Groups", NoCmd.gid, "-"), C("Advertise", NoCmd.gid, "-")}

CommitCmds == {"Add", "Remove", "Update"}

\* The store is finite: a command that publishes is given only while its
\* namespace has room for what it may publish.
HasRoom(a, c, maxkp) ==
  /\ c.name = "Advertise" => Stored("kp") + InFlightKp < maxkp
  /\ c.name = "Add" => Stored("wm") + InFlightWm < MaxWm
  /\ c.name \in CommitCmds /\ work[a].groups[c.gid] # None =>
       Len(work[a].groups[c.gid][1].hist) <= MaxEpoch
  /\ c.name = "CreateGroup" =>
       \/ nonce[gid_transformed(c.gid[1], a)] < MaxCreate
       \/ InSeq(gid_transformed(c.gid[1], a), work[a].gids)

\* The locals of an invocation that has ended.
Ended(a) ==
  /\ pc' = [pc EXCEPT ![a] = "idle"]
  /\ cmd' = [cmd EXCEPT ![a] = NoCmd]
  /\ index' = [index EXCEPT ![a] = 0]
  /\ todo' = [todo EXCEPT ![a] = <<>>]
  /\ pend' = [pend EXCEPT ![a] = NoPend]
  /\ due' = [due EXCEPT ![a] = {}]

\* A fatal error after which the in-memory state reaches the state file.
PanicSaving(a) ==
  /\ Ended(a)
  /\ saved' = [saved EXCEPT ![a] = work[a]]
  /\ lost' = [lost EXCEPT ![a] = None]
  /\ UNCHANGED <<store, work, sub, nkp, nonce, fatal, reset, io, http, mls>>

\* A fatal error (panic!, unwrap on Err/None): the process ends, the in-memory
\* state is lost, the state file is not touched.
Panic(a) ==
  /\ Ended(a)
  /\ work' = [work EXCEPT ![a] = saved[a]]
  /\ lost' = [lost EXCEPT ![a] = None]
  /\ UNCHANGED <<store, saved, sub, nkp, nonce, fatal, reset, io, http, mls>>

\* A fatal error on what the store returned: as Panic, and remembered.
Fatal(a, why) ==
  /\ Ended(a)
  /\ work' = [work EXCEPT ![a] = saved[a]]
  /\ lost' = [lost EXCEPT ![a] = None]
  /\ fatal' = [fatal EXCEPT ![a] = why]
  /\ UNCHANGED <<store, saved, sub, nkp, nonce, reset, io, http, mls>>

\* main.rs 180-227: load the state file (no --reset) and build the provider.
\* The command line is read here, but nothing consults the command before the
\* dispatch at main.rs 378, where the model draws it.
Start(a) ==
  /\ pc[a] = "idle"
  /\ pc' = [pc EXCEPT ![a] = "A"]
  /\ work' = [work EXCEPT ![a] = saved[a]]
  /\ due' = [due EXCEPT ![a] =
       {<<gid, RemovalPoint(my_pid(a), gid, saved[a].groups[gid][1].hist)[1]>> :
          gid \in {g \in Gids : /\ InSeq(g, saved[a].gids)
                                /\ saved[a].groups[g] # None
                                /\ RemovalPoint(my_pid(a), g,
                                      saved[a].groups[g][1].hist) # None}}]
  /\ fatal' = [fatal EXCEPT ![a] = ""]
  /\ reset' = [reset EXCEPT ![a] = FALSE]
  /\ mls' = [mls EXCEPT ![a] = NoMls]
  /\ UNCHANGED <<store, saved, cmd, index, todo, pend, sub, nkp, nonce, lost, io, http>>

\* A --reset that empties the counters and the gid set and keeps the MLS
\* storage of the state file.
StartResetKeepStorage(a) ==
  /\ pc[a] = "idle"
  /\ pc' = [pc EXCEPT ![a] = "A"]
  /\ work' = [work EXCEPT ![a] =
       [MySgmStateNew EXCEPT !.groups = saved[a].groups, !.kps = saved[a].kps]]
  /\ due' = [due EXCEPT ![a] = {}]
  /\ fatal' = [fatal EXCEPT ![a] = ""]
  /\ reset' = [reset EXCEPT ![a] = TRUE]
  /\ mls' = [mls EXCEPT ![a] = NoMls]
  /\ UNCHANGED <<store, saved, cmd, index, todo, pend, sub, nkp, nonce, lost, io, http>>

\* main.rs 180-200: with --reset the state file is not read; the state is
\* MySgmState::new with a new signature key pair. The state file keeps its
\* contents until the save at the end of the invocation.
StartReset(a) ==
  /\ pc[a] = "idle"
  /\ pc' = [pc EXCEPT ![a] = "A"]
  /\ work' = [work EXCEPT ![a] = MySgmStateNew]
  /\ due' = [due EXCEPT ![a] = {}]
  /\ fatal' = [fatal EXCEPT ![a] = ""]
  /\ reset' = [reset EXCEPT ![a] = TRUE]
  /\ mls' = [mls EXCEPT ![a] = NoMls]
  /\ UNCHANGED <<store, saved, cmd, index, todo, pend, sub, nkp, nonce, lost, io, http>>

\* A key package that is counted, and recorded unless it is one of the agent's
\* own.
IngestKeyPackageForeign(st, kp) ==
  IF kp \in st.kps THEN increment_key_package_counter(st)
  ELSE set_key_package(increment_key_package_counter(st), kp.pid, kp)

\* A key package that is counted, and recorded when the directory has no
\* entry for its pid yet.
IngestKeyPackageFirst(st, kp) ==
  IF st.key_packages[kp.pid] # None THEN increment_key_package_counter(st)
  ELSE set_key_package(increment_key_package_counter(st), kp.pid, kp)

\* A key package that is recorded and not counted.
IngestKeyPackageUncounted(st, kp) == set_key_package(st, kp.pid, kp)

\* main.rs 233-255: a fetched key package is counted, validated and recorded
\* under the pid of its credential.
IngestKeyPackage(st, kp) ==
  set_key_package(increment_key_package_counter(st), kp.pid, kp)

\* Values of a kp slot that Phase A cannot ingest (main.rs 236-253): bytes that
\* do not deserialize, a message that is not a key package, a key package
\* that fails validation.
BadSlots ==
  {[pid |-> why, n |-> 0] : why \in {"unparsable", "not a key package", "invalid"}}

\* A key-package loop that counts a slot it cannot ingest and goes on.
PhaseASkipBad(a) ==
  /\ pc[a] = "A"
  /\ LET r == get(key_package_key(work[a].key_package_counter)) IN
       IF r # None
       THEN /\ work' = [work EXCEPT ![a] =
                        IF r[1] \in BadSlots
                        THEN increment_key_package_counter(@)
                        ELSE IngestKeyPackage(@, r[1])]
            /\ UNCHANGED pc
       ELSE /\ pc' = [pc EXCEPT ![a] = "B"]
            /\ UNCHANGED work
  /\ UNCHANGED <<store, saved, cmd, index, todo, pend, sub, nkp, nonce, lost, due,
                 fatal, reset, io, http, mls>>

\* A key-package loop whose halt on a slot it cannot ingest writes the counter
\* it incremented before the validation to the state file.
PhaseAPersistCount(a) ==
  /\ pc[a] = "A"
  /\ LET r == get(key_package_key(work[a].key_package_counter)) IN
       IF r # None /\ r[1] \in BadSlots
       THEN /\ Ended(a)
            /\ saved' = [saved EXCEPT ![a] = increment_key_package_counter(work[a])]
            /\ work' = [work EXCEPT ![a] = increment_key_package_counter(@)]
            /\ lost' = [lost EXCEPT ![a] = None]
            /\ fatal' = [fatal EXCEPT ![a] = "kp slot"]
            /\ UNCHANGED <<store, sub, nkp, nonce, reset, io, http, mls>>
       ELSE /\ IF r # None
               THEN /\ work' = [work EXCEPT ![a] = IngestKeyPackage(@, r[1])]
                    /\ UNCHANGED pc
               ELSE /\ pc' = [pc EXCEPT ![a] = "B"]
                    /\ UNCHANGED work
            /\ UNCHANGED <<store, saved, cmd, index, todo, pend, sub, nkp, nonce,
                           lost, due, fatal, reset, io, http, mls>>

\* main.rs 229-264: one iteration of the key-package download loop.
PhaseA(a) ==
  /\ pc[a] = "A"
  /\ LET r == get(key_package_key(work[a].key_package_counter)) IN
       IF r # None /\ r[1] \in BadSlots
       THEN Fatal(a, "kp slot")
       ELSE /\ IF r # None
               THEN /\ work' = [work EXCEPT ![a] = IngestKeyPackage(@, r[1])]
                    /\ UNCHANGED pc
               ELSE /\ pc' = [pc EXCEPT ![a] = "B"]
                    /\ UNCHANGED work
            /\ UNCHANGED <<store, saved, cmd, index, todo, pend, sub, nkp, nonce,
                           lost, due, fatal, reset, io, http, mls>>

\* main.rs 256-263, 302-309, 366-373: a get of the SyncLoop returns Err.
GetError(a) ==
  /\ \/ pc[a] \in {"A", "B"}
     \/ /\ pc[a] = "C"
        /\ todo[a] # <<>>
        /\ work[a].groups[Head(todo[a])] # None
  /\ Fatal(a, "get")

\* StagedWelcome::new_from_welcome (main.rs 279-284): the welcome can be staged
\* when the agent's MLS storage holds the key package it was encrypted to.
CanStage(st, w) == w.kp \in st.kps

\* into_group (main.rs 286): the group enters the MLS storage map at the
\* welcome's epoch; a record already stored under the gid is replaced.
into_group(st, w) ==
  [st EXCEPT !.groups[w.gid] =
     Some([hist |-> w.hist, members |-> w.members, active |-> TRUE])]

\* A staged welcome whose gid enters the set while its group is not stored.
IngestWelcomeNoGroup(st, w) ==
  LET st1 == increment_welcome_counter(st) IN
  IF CanStage(st1, w) THEN add_gid(st1, w.gid) ELSE st1

\* A staged welcome whose group is not entered into the group-id set.
IngestWelcomeNoGid(st, w) ==
  LET st1 == increment_welcome_counter(st) IN
  IF CanStage(st1, w) THEN into_group(st1, w) ELSE st1

\* main.rs 270-296: a fetched welcome is counted; staged, it becomes a group
\* whose gid joins the set; a staging error is logged.
IngestWelcome(st, w) ==
  LET st1 == increment_welcome_counter(st) IN
  IF CanStage(st1, w) THEN add_gid(into_group(st1, w), w.gid) ELSE st1

\* A welcome loop that hands over to the command when the slot is empty.
PhaseBToCommand(a) ==
  /\ pc[a] = "B"
  /\ LET r == get(welcome_message_key(work[a].welcome_counter)) IN
       IF r # None
       THEN /\ work' = [work EXCEPT ![a] = IngestWelcome(@, r[1])]
            /\ UNCHANGED <<pc, todo>>
       ELSE /\ pc' = [pc EXCEPT ![a] = "cmd"]
            /\ todo' = [todo EXCEPT ![a] = work[a].gids]
            /\ UNCHANGED work
  /\ UNCHANGED <<store, saved, cmd, index, pend, sub, nkp, nonce, lost, due, fatal,
                 reset, io, http, mls>>

\* A welcome loop for which a welcome that cannot be staged is fatal.
PhaseBFatal(a) ==
  /\ pc[a] = "B"
  /\ LET r == get(welcome_message_key(work[a].welcome_counter)) IN
       IF r # None
       THEN IF CanStage(work[a], r[1])
            THEN /\ work' = [work EXCEPT ![a] = IngestWelcome(@, r[1])]
                 /\ UNCHANGED <<store, saved, cmd, index, pend, sub, nkp, nonce,
                                lost, due, pc, todo, fatal, reset, io, http, mls>>
            ELSE Panic(a)
       ELSE /\ pc' = [pc EXCEPT ![a] = "C"]
            /\ todo' = [todo EXCEPT ![a] = work[a].gids]
            /\ UNCHANGED <<store, saved, cmd, index, pend, sub, nkp, nonce, lost,
                           due, work, fatal, reset, io, http, mls>>

\* main.rs 266-310: one iteration of the welcome download loop.
PhaseB(a) ==
  /\ pc[a] = "B"
  /\ LET r == get(welcome_message_key(work[a].welcome_counter)) IN
       IF r # None
       THEN /\ work' = [work EXCEPT ![a] = IngestWelcome(@, r[1])]
            /\ UNCHANGED <<pc, todo>>
       ELSE /\ pc' = [pc EXCEPT ![a] = "C"]
            /\ todo' = [todo EXCEPT ![a] = work[a].gids]
            /\ UNCHANGED work
  /\ UNCHANGED <<store, saved, cmd, index, pend, sub, nkp, nonce, lost, due, fatal,
                 reset, io, http, mls>>

\* An eviction that deletes the group and keeps its gid.
EvictKeepGid(st, gid) == [st EXCEPT !.groups[gid] = None]

\* main.rs 319-324: the "evict" arm: the group is deleted from the MLS storage
\* and its gid removed from the set.
Evict(st, gid) == remove_gid([st EXCEPT !.groups[gid] = None], gid)

\* A Phase C that fetches one commit per group and pass.
PhaseCGroupOneCommit(st, gid, r, me) ==
  LET g == st.groups[gid][1] IN
  IF r = None THEN [st |-> st, more |-> FALSE]
  ELSE IF ~process_message_ok(r[1], me) THEN [st |-> st, more |-> FALSE]
  ELSE [st |-> [st EXCEPT !.groups[gid] = Some(MergeCommit(g, r[1], me))],
        more |-> FALSE]

\* A Phase C that merges nothing.
PhaseCGroupNoMerge(st, gid, r, me) == [st |-> st, more |-> FALSE]

\* main.rs 316-374: the inner loop of Phase C for one group, from the fetched
\* value r on: the new state and whether the loop goes on with this group.
\* After a merge the loop derives the next commit key; on a group the agent
\* was removed from that fails with an "evict" error.
PhaseCGroup(st, gid, r, me) ==
  LET g == st.groups[gid][1] IN
  IF r = None THEN [st |-> st, more |-> FALSE]
  ELSE IF ~process_message_ok(r[1], me) THEN [st |-> st, more |-> FALSE]
  ELSE LET g2 == MergeCommit(g, r[1], me) IN
       IF commit_key_ok(g2)
       THEN [st |-> [st EXCEPT !.groups[gid] = Some(g2)], more |-> TRUE]
       ELSE [st |-> Evict(st, gid), more |-> FALSE]

\* main.rs 312-375: one store read of Phase C, or the end of the for loop.
PhaseC(a) ==
  /\ pc[a] = "C"
  /\ IF todo[a] = <<>>
     THEN /\ pc' = [pc EXCEPT ![a] = "cmd"]
          /\ UNCHANGED <<work, todo, cmd, index, pend, due, lost>>
          /\ UNCHANGED <<store, saved, sub, nkp, nonce, fatal, reset, io, http, mls>>
     ELSE LET gid == Head(todo[a])
              st == work[a] IN
          IF st.groups[gid] = None
          THEN Panic(a)
          ELSE LET res == IF commit_key_ok(st.groups[gid][1])
                          THEN PhaseCGroup(st, gid,
                                 get(commit_key(gid, st.groups[gid][1])), my_pid(a))
                          ELSE [st |-> Evict(st, gid), more |-> FALSE] IN
               /\ work' = [work EXCEPT ![a] = res.st]
               /\ todo' = [todo EXCEPT ![a] = IF res.more THEN @ ELSE Tail(@)]
               /\ UNCHANGED <<pc, cmd, index, pend, store, saved, sub, nkp, nonce,
                              lost, due, fatal, reset, io, http, mls>>

\* ------------------------------------------------- a whole SyncLoop pass
\* The three loops run to their end against the store as it stands: the state
\* the pass leaves, or None when the pass ends in a fatal error.
RECURSIVE SyncA(_)
SyncA(st) ==
  LET r == get(key_package_key(st.key_package_counter)) IN
  IF r = None THEN Some(st)
  ELSE IF r[1] \in BadSlots THEN None
  ELSE SyncA(IngestKeyPackage(st, r[1]))

RECURSIVE SyncB(_)
SyncB(st) ==
  LET r == get(welcome_message_key(st.welcome_counter)) IN
  IF r = None THEN st ELSE SyncB(IngestWelcome(st, r[1]))

\* main.rs 316-374: the inner loop of Phase C for one stored group.
RECURSIVE SyncGroup(_, _, _)
SyncGroup(st, gid, me) ==
  IF ~commit_key_ok(st.groups[gid][1]) THEN Evict(st, gid)
  ELSE LET res == PhaseCGroup(st, gid,
                    get(commit_key(gid, st.groups[gid][1])), me) IN
       IF res.more THEN SyncGroup(res.st, gid, me) ELSE res.st

\* main.rs 312-375: the for loop over the gids the set held when it began.
RECURSIVE SyncC(_, _, _)
SyncC(st, td, me) ==
  IF td = <<>> THEN Some(st)
  ELSE IF st.groups[Head(td)] = None THEN None
  ELSE SyncC(SyncGroup(st, Head(td), me), Tail(td), me)

SyncLoop(a, st) ==
  LET s1 == SyncA(st) IN
  IF s1 = None THEN None
  ELSE LET s2 == SyncB(s1[1]) IN SyncC(s2, s2.gids, my_pid(a))

\* ---------------------------------------------------------------- commands
\* What the local part of a command yields: the new state, the messages to
\* publish and the next position ("panic" for a fatal error).
Result(st, pd, next) == [st |-> st, pend |-> pd, next |-> next]

\* A CreateGroup that puts the new group into a fresh state.
ExecCreateGroupFresh(a, st, c) ==
  LET gt == gid_transformed(c.gid[1], a) IN
  IF InSeq(gt, st.gids) THEN Result(st, NoPend, "panic")
  ELSE Result(add_gid([MySgmStateNew EXCEPT !.groups[gt] = Some(NewGroup(a, nonce[gt]))], gt),
              NoPend, "save")

\* A CreateGroup that does not look for the gid in the set.
ExecCreateGroupAgain(a, st, c) ==
  LET gt == gid_transformed(c.gid[1], a) IN
  Result([st EXCEPT !.groups[gt] = Some(NewGroup(a, nonce[gt])),
                    !.gids = Append(@, gt)],
         NoPend, "save")

\* main.rs 392-418: CreateGroup.
ExecCreateGroup(a, st, c) ==
  LET gt == gid_transformed(c.gid[1], a) IN
  IF InSeq(gt, st.gids) THEN Result(st, NoPend, "panic")
  ELSE Result(add_gid([st EXCEPT !.groups[gt] = Some(NewGroup(a, nonce[gt]))], gt),
              NoPend, "save")

\* An Advertise that also enters the package into the directory.
ExecAdvertiseRecording(a, st) ==
  LET kp == [pid |-> my_pid(a), n |-> nkp] IN
  Result(set_key_package([st EXCEPT !.kps = @ \cup {kp}], my_pid(a), kp),
         [NoPend EXCEPT !.kp = Some(kp)], "pubKp")

\* main.rs 419-436: Advertise builds a fresh key package; its private part is
\* kept in the MLS storage.
ExecAdvertise(a, st) ==
  LET kp == [pid |-> my_pid(a), n |-> nkp] IN
  Result([st EXCEPT !.kps = @ \cup {kp}], [NoPend EXCEPT !.kp = Some(kp)], "pubKp")

\* An ExportSecret that counts a welcome.
ExecExportSecretCounting(st, c) ==
  IF st.groups[c.gid] = None \/ ~st.groups[c.gid][1].active
  THEN Result(st, NoPend, "panic")
  ELSE Result(increment_welcome_counter(st), NoPend, "save")

\* main.rs 455-466: the group is loaded and a secret exported from it.
ExecExportSecret(st, c) ==
  IF st.groups[c.gid] = None \/ ~st.groups[c.gid][1].active
  THEN Result(st, NoPend, "panic")
  ELSE Result(st, NoPend, "save")

Commit(a, kind, who) == [by |-> my_pid(a), kind |-> kind, who |-> who, n |-> 0]

\* add_members_without_update / remove_members / self_update succeed on an
\* active group, for a pid that is not yet (Add) or is (Remove) another member.
CanCommit(a, g, c) ==
  /\ g.active
  /\ c.name = "Add" => c.who \notin g.members
  /\ c.name = "Remove" => c.who \in g.members /\ c.who # my_pid(a)

\* An Add that does not look the pid up in the directory and adds a key
\* package of its own making.
ExecCommitNoLookup(a, st, c) ==
  IF st.groups[c.gid] = None THEN Result(st, NoPend, "panic")
  ELSE IF ~CanCommit(a, st.groups[c.gid][1], c) THEN Result(st, NoPend, "panic")
  ELSE LET g  == st.groups[c.gid][1]
           cm == Commit(a, IF c.name = "Add" THEN "add"
                           ELSE IF c.name = "Remove" THEN "remove"
                           ELSE "update",
                        IF c.name = "Update" THEN "-" ELSE c.who)
       IN Result(st,
                 [kp |-> None, commit |-> Some(cm),
                  welcome |-> IF c.name = "Add"
                              THEN Some([gid |-> c.gid, hist |-> Append(g.hist, cm),
                                         members |-> MembersAfter(g.members, cm),
                                         kp |-> [pid |-> c.who, n |-> 0]])
                              ELSE None],
                 "pubCm")

\* main.rs 478-498, 526-554, 581-593: Remove, Add and Update build a pending
\* commit (Add: and a welcome for the key package of the directory).
ExecCommit(a, st, c) ==
  IF st.groups[c.gid] = None THEN Result(st, NoPend, "panic")
  ELSE IF c.name = "Add" /\ st.key_packages[c.who] = None THEN Result(st, NoPend, "panic")
  ELSE IF ~CanCommit(a, st.groups[c.gid][1], c) THEN Result(st, NoPend, "panic")
  ELSE LET g  == st.groups[c.gid][1]
           cm == Commit(a, IF c.name = "Add" THEN "add"
                           ELSE IF c.name = "Remove" THEN "remove"
                           ELSE "update",
                        IF c.name = "Update" THEN "-" ELSE c.who)
       IN Result(st,
                 [kp |-> None, commit |-> Some(cm),
                  welcome |-> IF c.name = "Add"
                              THEN Some([gid |-> c.gid, hist |-> Append(g.hist, cm),
                                         members |-> MembersAfter(g.members, cm),
                                         kp |-> st.key_packages[c.who][1]])
                              ELSE None],
                 "pubCm")

Execute(a, st, c) ==
  CASE c.name = "Groups" -> Result(st, NoPend, "save")
    [] c.name = "CreateGroup" -> ExecCreateGroup(a, st, c)
    [] c.name = "Advertise" -> ExecAdvertise(a, st)
    [] c.name = "ExportSecret" -> ExecExportSecret(st, c)
    [] c.name \in CommitCmds -> ExecCommit(a, st, c)

\* main.rs 376-378: the command is dispatched once the SyncLoop has ended.
Cmd(a, c) ==
  /\ pc[a] = "cmd"
  /\ LET e == Execute(a, work[a], c) IN
       IF e.next = "panic" THEN Panic(a)
       ELSE /\ work' = [work EXCEPT ![a] = e.st]
            /\ pend' = [pend EXCEPT ![a] = e.pend]
            /\ pc' = [pc EXCEPT ![a] = e.next]
            /\ cmd' = [cmd EXCEPT ![a] = c]
            /\ index' = [index EXCEPT ![a] = e.st.key_package_counter]
            /\ nkp' = IF c.name = "Advertise" THEN nkp + 1 ELSE nkp
            /\ nonce' = IF c.name = "CreateGroup"
                        THEN [nonce EXCEPT ![gid_transformed(c.gid[1], a)] = @ + 1]
                        ELSE nonce
            /\ UNCHANGED <<store, saved, todo, sub, lost, due, fatal, reset, io, http, mls>>

PubPcs == {"pubKp", "pubCm", "pubWm"}

\* The key and the value of the put_checked the invocation is at.
PutKey(a) ==
  CASE pc[a] = "pubKp" -> key_package_key(index[a])
    [] pc[a] = "pubCm" -> commit_key(cmd[a].gid, work[a].groups[cmd[a].gid][1])
    [] pc[a] = "pubWm" -> welcome_message_key(index[a])

PutValue(a) ==
  CASE pc[a] = "pubKp" -> pend[a].kp[1]
    [] pc[a] = "pubCm" -> pend[a].commit[1]
    [] pc[a] = "pubWm" -> pend[a].welcome[1]

\* A publish loop that moves the counter of its stream past the slot it wrote.
AfterPutSlotCounting(a, ok) ==
  /\ IF ok THEN /\ pc' = [pc EXCEPT ![a] = "save"]
                /\ pend' = [pend EXCEPT ![a] = NoPend]
                /\ work' = [work EXCEPT ![a] =
                     IF pc[a] = "pubKp"
                     THEN [@ EXCEPT !.key_package_counter = index[a] + 1]
                     ELSE [@ EXCEPT !.welcome_counter = index[a] + 1]]
                /\ UNCHANGED index
           ELSE /\ index' = [index EXCEPT ![a] = @ + 1]
                /\ UNCHANGED <<pc, pend, work>>
  /\ UNCHANGED <<saved, cmd, todo, nkp, nonce, lost, due, fatal, reset, http, mls>>

\* A publish loop that skips a slot after "Key already exists".
AfterPutSlotSkip(a, ok) ==
  /\ IF ok THEN /\ pc' = [pc EXCEPT ![a] = "save"]
                /\ pend' = [pend EXCEPT ![a] = NoPend]
                /\ UNCHANGED index
           ELSE /\ index' = [index EXCEPT ![a] = @ + 2]
                /\ UNCHANGED <<pc, pend>>
  /\ UNCHANGED <<work, saved, cmd, todo, nkp, nonce, lost, due, fatal, reset, http, mls>>

\* main.rs 441-452, 509-522, 564-576, 604-617: a publish loop ends on Ok and
\* goes to the next index on "Key already exists".
AfterPutSlot(a, ok) ==
  /\ IF ok THEN /\ pc' = [pc EXCEPT ![a] = "save"]
                /\ pend' = [pend EXCEPT ![a] = NoPend]
                /\ UNCHANGED index
           ELSE /\ index' = [index EXCEPT ![a] = @ + 1]
                /\ UNCHANGED <<pc, pend>>
  /\ UNCHANGED <<work, saved, cmd, todo, nkp, nonce, lost, due, fatal, reset, http, mls>>

\* main.rs 498-505, 554-560, 593-600: the commit's put_checked is unwrapped; on
\* Ok the pending commit is merged and the welcome, if any, is published from
\* welcome_counter on.
AfterPutCommit(a, ok) ==
  IF ok
  THEN LET gid == cmd[a].gid
           g2  == MergeCommit(work[a].groups[gid][1], pend[a].commit[1], my_pid(a))
       IN /\ work' = [work EXCEPT ![a].groups[gid] = Some(g2)]
          /\ pc' = [pc EXCEPT ![a] = IF pend[a].welcome # None THEN "pubWm" ELSE "save"]
          /\ pend' = [pend EXCEPT ![a].commit = None]
          /\ index' = [index EXCEPT ![a] = work[a].welcome_counter]
          /\ UNCHANGED <<saved, cmd, todo, nkp, nonce, lost, due, fatal, reset, http, mls>>
  ELSE /\ Ended(a)
       /\ work' = [work EXCEPT ![a] = saved[a]]
       /\ lost' = [lost EXCEPT ![a] =
            Some([gid |-> cmd[a].gid, hist |-> work[a].groups[cmd[a].gid][1].hist])]
       /\ UNCHANGED <<saved, nkp, nonce, fatal, reset, http, mls>>

AfterPut(a, ok) ==
  IF pc[a] = "pubCm" THEN AfterPutCommit(a, ok) ELSE AfterPutSlot(a, ok)

\* FileAdapter::put_checked: refuses with "Key already exists" when the key is
\* present, else writes; check and write are one step.
FilePutChecked(key, value) ==
  IF key \in DOMAIN store
  THEN [ok |-> FALSE, store |-> store]
  ELSE [ok |-> TRUE, store |-> store @@ (key :> <<value>>)]

\* A put_checked of a command through the file adapter.
PutCheckedFile(a) ==
  /\ pc[a] \in PubPcs
  /\ LET r == FilePutChecked(PutKey(a), PutValue(a)) IN
       /\ store' = r.store
       /\ AfterPut(a, r.ok)
  /\ UNCHANGED <<sub, io>>

\* opendht.rs 95-97: put_checked of the DHT adapter first reads the key and
\* answers "Key already exists" when it holds a value.
DhtPutCheckedGet(a) ==
  /\ pc[a] \in PubPcs
  /\ sub[a] = "get"
  /\ IF get(PutKey(a)) # None
     THEN /\ AfterPut(a, FALSE)
          /\ UNCHANGED <<store, sub, io>>
     ELSE /\ sub' = [sub EXCEPT ![a] = "put"]
          /\ UNCHANGED <<store, saved, work, pc, cmd, index, todo, pend, nkp, nonce,
                         lost, due, fatal, reset, io, http, mls>>

\* opendht.rs 62-94: put POSTs the value; the DHT adds it to the values of the
\* key.
DhtPut(key, value) ==
  IF key \in DOMAIN store
  THEN [store EXCEPT ![key] = Append(@, value)]
  ELSE store @@ (key :> <<value>>)

\* opendht.rs 98-100: put_checked of the DHT adapter then writes.
DhtPutCheckedPut(a) ==
  /\ pc[a] \in PubPcs
  /\ sub[a] = "put"
  /\ store' = DhtPut(PutKey(a), PutValue(a))
  /\ sub' = [sub EXCEPT ![a] = "get"]
  /\ AfterPut(a, TRUE)
  /\ UNCHANGED io

\* ------------------------------------------- the DHT adapter with failures
\* opendht.rs 21-61: what a get of the key can return: Ok(Some) or Ok(None) as
\* the store holds a value or not, or Err (no connection, non-2xx status,
\* undecodable body).
GetOutcomes(key) == {IF get(key) # None THEN "some" ELSE "none", "err"}

\* The call o of put_checked is entered in the log, with the result once
\* put_checked returns.
Logged(a, o, res) == [io EXCEPT ![a] = [calls |-> Append(@.calls, o), res |-> res]]

\* main.rs 448-450, 498-500: an error of put_checked that is not "Key already
\* exists" is fatal (panic!, unwrap).
PutError(a) ==
  /\ Ended(a)
  /\ work' = [work EXCEPT ![a] = saved[a]]
  /\ lost' = [lost EXCEPT ![a] = None]
  /\ UNCHANGED <<saved, nkp, nonce, fatal, reset, http, mls>>

\* opendht.rs 96-98: the first get of put_checked; anything but Ok(Some) leads
\* to the put.
DhtFirstGet(a) ==
  /\ pc[a] \in PubPcs
  /\ sub[a] = "get"
  /\ \E o \in GetOutcomes(PutKey(a)) :
       IF o = "some"
       THEN /\ io' = [io EXCEPT ![a] = [calls |-> <<o>>, res |-> "Key already exists"]]
            /\ AfterPut(a, FALSE)
            /\ UNCHANGED <<store, sub>>
       ELSE /\ io' = [io EXCEPT ![a] = [calls |-> <<o>>, res |-> "-"]]
            /\ sub' = [sub EXCEPT ![a] = "put"]
            /\ UNCHANGED <<store, saved, work, pc, cmd, index, todo, pend, nkp, nonce,
                           lost, due, fatal, reset, http, mls>>

\* opendht.rs 99-101: the put; when it returns Err (no connection, non-2xx
\* status) the value may or may not have reached the DHT.
DhtPutOrFail(a) ==
  /\ pc[a] \in PubPcs
  /\ sub[a] = "put"
  /\ \/ /\ store' = DhtPut(PutKey(a), PutValue(a))
        /\ sub' = [sub EXCEPT ![a] = "get"]
        /\ io' = Logged(a, "ok", "Ok")
        /\ AfterPut(a, TRUE)
     \/ /\ store' \in {store, DhtPut(PutKey(a), PutValue(a))}
        /\ sub' = [sub EXCEPT ![a] = "reread"]
        /\ io' = Logged(a, "err", "-")
        /\ UNCHANGED <<saved, work, pc, cmd, index, todo, pend, nkp, nonce,
                       lost, due, fatal, reset, http, mls>>

\* A put_checked that returns the put's error without reading the key again.
DhtRereadNever(a) ==
  /\ pc[a] \in PubPcs
  /\ sub[a] = "reread"
  /\ \E o \in GetOutcomes(PutKey(a)) :
       /\ sub' = [sub EXCEPT ![a] = "get"]
       /\ store' = store
       /\ io' = Logged(a, o, "put error")
       /\ PutError(a)

\* opendht.rs 101-108: after a failed put the key is read again: Ok(Some) turns
\* the failure into Ok(()), anything else returns the put's error.
DhtReread(a) ==
  /\ pc[a] \in PubPcs
  /\ sub[a] = "reread"
  /\ \E o \in GetOutcomes(PutKey(a)) :
       /\ sub' = [sub EXCEPT ![a] = "get"]
       /\ store' = store
       /\ IF o = "some"
          THEN io' = Logged(a, o, "Ok") /\ AfterPut(a, TRUE)
          ELSE io' = Logged(a, o, "put error") /\ PutError(a)

\* main.rs 624-626: the state is written to the state file.
Save(a) ==
  /\ pc[a] = "save"
  /\ saved' = [saved EXCEPT ![a] = work[a]]
  /\ lost' = [lost EXCEPT ![a] = None]
  /\ Ended(a)
  /\ UNCHANGED <<store, work, sub, nkp, nonce, fatal, reset, io, http, mls>>

\* Agents on the file adapter.
Next ==
  \E a \in Agents :
    \/ Start(a)
    \/ PhaseA(a)
    \/ PhaseB(a)
    \/ PhaseC(a)
    \/ \E c \in Cmds(a) : HasRoom(a, c, MaxKp) /\ Cmd(a, c)
    \/ PutCheckedFile(a)
    \/ Save(a)

Spec == Init /\ [][Next]_vars

\* A process that is in one of its download loops goes on with it: the loops
\* run in one thread, without a wait or a timeout (main.rs 229-375).
SyncFair ==
  \A a \in Agents : WF_vars(PhaseA(a)) /\ WF_vars(PhaseB(a)) /\ WF_vars(PhaseC(a))

\* The commands of two agents of which one founds the group and adds the
\* other, and both commit.
LiveCmds(a) ==
  IF a = "A"
  THEN {C("CreateGroup", <<"g", "-">>, "-"), C("Add", GA, "B"), C("Remove", GA, "B")}
  ELSE {C("Advertise", NoCmd.gid, "-"), C("Update", GA, "-")}

NextLive ==
  \E a \in Agents :
    \/ Start(a)
    \/ PhaseA(a)
    \/ PhaseB(a)
    \/ PhaseC(a)
    \/ \E c \in LiveCmds(a) : HasRoom(a, c, MaxKp) /\ Cmd(a, c)
    \/ PutCheckedFile(a)
    \/ Save(a)

SpecLive == Init /\ [][NextLive]_vars /\ SyncFair

\* Agents on the file adapter that only advertise.
NextKp ==
  \E a \in Agents :
    \/ Start(a)
    \/ PhaseA(a)
    \/ PhaseB(a)
    \/ PhaseC(a)
    \/ \E c \in KpCmds : HasRoom(a, c, MaxAdv) /\ Cmd(a, c)
    \/ PutCheckedFile(a)
    \/ Save(a)

SpecKp == Init /\ [][NextKp]_vars

\* Agents on the DHT adapter.
NextDht ==
  \E a \in Agents :
    \/ Start(a)
    \/ PhaseA(a)
    \/ PhaseB(a)
    \/ PhaseC(a)
    \/ \E c \in Cmds(a) : HasRoom(a, c, MaxAdv) /\ Cmd(a, c)
    \/ DhtPutCheckedGet(a)
    \/ DhtPutCheckedPut(a)
    \/ Save(a)

SpecDht == Init /\ [][NextDht]_vars

\* The commands of agents whose store has faults.
FaultCmds == KpCmds \cup {C("CreateGroup", <<"g", "-">>, "-")}

\* The first kp slot that holds nothing.
FreeKp == CHOOSE i \in 0..Stored("kp") : key_package_key(i) \notin DOMAIN store

\* A corrupted or malicious slot: somebody writes a value that is no valid key
\* package into the first free kp slot.
Corrupt ==
  /\ Stored("kp") + InFlightKp < MaxAdv
  /\ \E bad \in BadSlots :
       store' = store @@ (key_package_key(FreeKp) :> <<bad>>)
  /\ UNCHANGED <<saved, work, pc, cmd, index, todo, pend, sub, nkp, nonce, lost, due,
                 fatal, reset, io, http, mls>>

\* Agents on the file adapter whose gets may fail and whose kp slots may be
\* corrupted.
NextFault ==
  \/ \E a \in Agents :
       \/ Start(a)
       \/ PhaseA(a)
       \/ PhaseB(a)
       \/ PhaseC(a)
       \/ \E c \in FaultCmds : HasRoom(a, c, MaxAdv) /\ Cmd(a, c)
       \/ PutCheckedFile(a)
       \/ Save(a)
       \/ GetError(a)
  \/ Corrupt

SpecFault == Init /\ [][NextFault]_vars

\* Agents that only advertise, on a DHT whose calls may fail; at most MaxAdv
\* key packages are built.
NextDhtFault ==
  \E a \in Agents :
    \/ Start(a)
    \/ PhaseA(a)
    \/ PhaseB(a)
    \/ PhaseC(a)
    \/ \E c \in KpCmds : nkp < MaxAdv /\ HasRoom(a, c, MaxAdv) /\ Cmd(a, c)
    \/ DhtFirstGet(a)
    \/ DhtPutOrFail(a)
    \/ DhtReread(a)
    \/ Save(a)

SpecDhtFault == Init /\ [][NextDhtFault]_vars

\* Agents on the file adapter that advertise and create groups and may be
\* started with --reset.
NextReset ==
  \E a \in Agents :
    \/ Start(a)
    \/ StartReset(a)
    \/ PhaseA(a)
    \/ PhaseB(a)
    \/ PhaseC(a)
    \/ \E c \in FaultCmds : HasRoom(a, c, MaxKp) /\ Cmd(a, c)
    \/ PutCheckedFile(a)
    \/ Save(a)

SpecReset == Init /\ [][NextReset]_vars

\* The DHT has room for one more value under the key of a's put_checked.
HasRoomFor(a) ==
  /\ pc[a] \in PubPcs
  /\ PutKey(a) \in DOMAIN store => Len(store[PutKey(a)]) < MaxVals

\* Agents that found a group, add, remove and commit, on a DHT whose calls may
\* fail; at most MaxAdv key packages are built.
NextDhtRace ==
  \E a \in Agents :
    \/ Start(a)
    \/ PhaseA(a)
    \/ PhaseB(a)
    \/ PhaseC(a)
    \/ \E c \in LiveCmds(a) : nkp < MaxAdv /\ HasRoom(a, c, MaxKp) /\ Cmd(a, c)
    \/ DhtFirstGet(a)
    \/ HasRoomFor(a) /\ DhtPutOrFail(a)
    \/ DhtReread(a)
    \/ Save(a)

SpecDhtRace == Init /\ [][NextDhtRace]_vars

\* ------------------------------------------------ both agents publish slots
\* Each agent advertises, creates its group and adds the other agent to it.
SlotCmds(a) ==
  {C("Advertise", NoCmd.gid, "-"), C("CreateGroup", <<"g", "-">>, "-")}
  \cup {C("Add", gid_transformed("g", a), b) : b \in Agents \ {a}}

\* The store is finite: both slot namespaces have room for MaxAdv values.
HasRoomSlots(a, c) ==
  /\ c.name = "Advertise" => Stored("kp") + InFlightKp < MaxAdv
  /\ c.name = "Add" =>
       /\ Stored("wm") + InFlightWm < MaxAdv
       /\ work[a].groups[c.gid] # None => Len(work[a].groups[c.gid][1].hist) < MaxEpoch
  /\ c.name = "CreateGroup" =>
       \/ nonce[gid_transformed(c.gid[1], a)] < MaxCreate
       \/ InSeq(gid_transformed(c.gid[1], a), work[a].gids)

NextSlots ==
  \E a \in Agents :
    \/ Start(a)
    \/ PhaseA(a)
    \/ PhaseB(a)
    \/ PhaseC(a)
    \/ \E c \in SlotCmds(a) : HasRoomSlots(a, c) /\ Cmd(a, c)
    \/ PutCheckedFile(a)
    \/ Save(a)

SpecSlots == Init /\ [][NextSlots]_vars

\* ------------------------------------------------- the MLS library's errors
\* main.rs 338-361: what the match arms tell apart when agent me handles a
\* fetched commit c: the call that answered and the text of its error ("":
\* Ok). A member's own commit fails in process_message; a commit that removes
\* the member merges, or surfaces "UseAfterEviction" in either call.
LibAnswers(c, me) ==
  IF ~process_message_ok(c, me) THEN {[at |-> "process", err |-> "other"]}
  ELSE IF c.kind = "remove" /\ c.who = me
       THEN {[at |-> "merge", err |-> ""],
             [at |-> "merge", err |-> "UseAfterEviction"],
             [at |-> "process", err |-> "UseAfterEviction"]}
       ELSE {[at |-> "merge", err |-> ""]}

\* main.rs 345-351: the "UseAfterEviction" arm of merge_staged_commit: the gid
\* is removed from the set.
EvictGidOnly(st, gid) == remove_gid(st, gid)

\* The answer of a failed export_secret (main.rs 319).
EvictAnswer == [at |-> "export", err |-> "evict"]

\* main.rs 316-374: the inner loop of Phase C for one group, from the fetched
\* value r and the library's answer ans on: the new state, whether the loop
\* goes on with this group, and the answer the step ended on.
PhaseCGroupLib(st, gid, r, ans, me) ==
  LET g == st.groups[gid][1] IN
  IF r = None THEN [st |-> st, more |-> FALSE, mls |-> [at |-> "get", err |-> ""]]
  ELSE IF ans.at = "process" THEN [st |-> st, more |-> FALSE, mls |-> ans]
  ELSE IF ans.err = "UseAfterEviction"
       THEN [st |-> EvictGidOnly(st, gid), more |-> FALSE, mls |-> ans]
  ELSE LET g2 == MergeCommit(g, r[1], me) IN
       IF commit_key_ok(g2)
       THEN [st |-> [st EXCEPT !.groups[gid] = Some(g2)], more |-> TRUE, mls |-> ans]
       ELSE [st |-> Evict(st, gid), more |-> FALSE, mls |-> EvictAnswer]

\* main.rs 312-375: one store read of Phase C with the library's answer to
\* what was read, or the end of the for loop.
PhaseCLib(a) ==
  /\ pc[a] = "C"
  /\ IF todo[a] = <<>>
     THEN /\ pc' = [pc EXCEPT ![a] = "cmd"]
          /\ UNCHANGED <<work, todo, cmd, index, pend, due, lost>>
          /\ UNCHANGED <<store, saved, sub, nkp, nonce, fatal, reset, io, http, mls>>
     ELSE LET gid == Head(todo[a])
              st == work[a] IN
          IF st.groups[gid] = None
          THEN Panic(a)
          ELSE LET r == get(commit_key(gid, st.groups[gid][1])) IN
               \E ans \in IF r = None THEN {[at |-> "get", err |-> ""]} ELSE LibAnswers(r[1], my_pid(a)) :
                 LET res == IF commit_key_ok(st.groups[gid][1])
                            THEN PhaseCGroupLib(st, gid, r, ans, my_pid(a))
                            ELSE [st |-> Evict(st, gid), more |-> FALSE,
                                  mls |-> EvictAnswer] IN
                 /\ work' = [work EXCEPT ![a] = res.st]
                 /\ todo' = [todo EXCEPT ![a] = IF res.more THEN @ ELSE Tail(@)]
                 /\ mls' = [mls EXCEPT ![a] =
                               [at |-> res.mls.at, err |-> res.mls.err, gid |-> gid]]
                 /\ UNCHANGED <<pc, cmd, index, pend, store, saved, sub, nkp, nonce,
                                lost, due, fatal, reset, io, http>>

\* The commands of a group whose creator removes the member it added.
NextEvict ==
  \E a \in Agents :
    \/ Start(a)
    \/ PhaseA(a)
    \/ PhaseB(a)
    \/ PhaseCLib(a)
    \/ \E c \in LiveCmds(a) : HasRoom(a, c, MaxKp) /\ Cmd(a, c)
    \/ PutCheckedFile(a)
    \/ Save(a)

SpecEvict == Init /\ [][NextEvict]_vars

\* ------------------------------------------- OpenDhtRestAdapter::get alone
\* The data strings of the responses: the empty string, the base64 texts of
\* two values, and a text that is not base64.
DataStrings == {"", "QQ==", "Qg==", "Q!"}

\* STANDARD.decode (opendht.rs 57): the bytes of a base64 text, None for a
\* text that is not base64. The empty text decodes to no bytes.
Base64Decode(t) ==
  CASE t = ""     -> Some(<<>>)
    [] t = "QQ==" -> Some(<<65>>)
    [] t = "Qg==" -> Some(<<66>>)
    [] OTHER      -> None

\* A JSON value as get looks at it: not an object, an object without a data
\* field, an object whose data is not a string, an object with a data string.
JsonElems ==
  {[t |-> k, s |-> ""] : k \in {"scalar", "nodata", "number"}}
  \cup {[t |-> "string", s |-> d] : d \in DataStrings}

SeqsUpTo(S, n) == UNION {[1..k -> S] : k \in 0..n}

\* The response bodies: empty, not JSON, a JSON array, a JSON object, any
\* other JSON value.
Bodies ==
  {[kind |-> k, elems |-> <<>>] : k \in {"empty", "invalid", "other"}}
  \cup {[kind |-> "array", elems |-> e] : e \in SeqsUpTo(JsonElems, MaxElems)}
  \cup {[kind |-> "object", elems |-> <<e>>] : e \in JsonElems \ {[t |-> "scalar", s |-> ""]}}

Statuses == {200, 204, 404, 500}

\* The values of Result<Option<Vec<u8>>, Box<dyn Error>>.
GetErr(why, status) == [r |-> "err", why |-> why, status |-> status, bytes |-> <<>>]
GetNone == [r |-> "none", why |-> "", status |-> 0, bytes |-> <<>>]
GetSome(bytes) == [r |-> "some", why |-> "", status |-> 0, bytes |-> bytes]

\* value.get("data").and_then(|data| data.as_str()) (opendht.rs 47-49).
DataOf(e) == IF e.t = "string" THEN Some(e.s) ELSE None

\* A scan that takes the data string of the last element that has one.
RECURSIVE FindDataLast(_)
FindDataLast(elems) ==
  IF elems = <<>> THEN None
  ELSE IF FindDataLast(Tail(elems)) # None THEN FindDataLast(Tail(elems))
  ELSE DataOf(Head(elems))

\* values.iter().find_map(..) (opendht.rs 45-49): the data string of the first
\* element that has one.
RECURSIVE FindData(_)
FindData(elems) ==
  IF elems = <<>> THEN None
  ELSE IF DataOf(Head(elems)) # None THEN DataOf(Head(elems))
  ELSE FindData(Tail(elems))

\* opendht.rs 38-60: what get returns for a response.
GetResult(status, body) ==
  IF status \notin 200..299 THEN GetErr("HTTP status", status)
  ELSE IF body.kind = "empty" THEN GetNone
  ELSE IF body.kind = "invalid" THEN GetErr("json", 0)
  ELSE LET data == CASE body.kind = "array"  -> FindData(body.elems)
                     [] body.kind = "object" -> DataOf(body.elems[1])
                     [] OTHER                -> None
       IN IF data = None \/ data = Some("") THEN GetNone
          ELSE IF Base64Decode(data[1]) = None THEN GetErr("base64", 0)
          ELSE GetSome(Base64Decode(data[1])[1])

\* The gateway answers a GET.
InitGet ==
  /\ store = <<>>
  /\ saved = [a \in Agents |-> MySgmStateNew]
  /\ work = [a \in Agents |-> MySgmStateNew]
  /\ pc = [a \in Agents |-> "idle"]
  /\ cmd = [a \in Agents |-> NoCmd]
  /\ index = [a \in Agents |-> 0]
  /\ todo = [a \in Agents |-> <<>>]
  /\ pend = [a \in Agents |-> NoPend]
  /\ sub = [a \in Agents |-> "get"]
  /\ nkp = 0
  /\ nonce = [g \in Gids |-> 0]
  /\ lost = [a \in Agents |-> None]
  /\ due = [a \in Agents |-> {}]
  /\ fatal = [a \in Agents |-> ""]
  /\ reset = [a \in Agents |-> FALSE]
  /\ io = [a \in Agents |-> NoIo]
  /\ mls = [a \in Agents |-> NoMls]
  /\ \E st \in Statuses, b \in Bodies :
       http = [status |-> st, body |-> b, result |-> None]

\* opendht.rs 21-61: get turns the response into its result.
DhtGet ==
  /\ http.result = None
  /\ http' = [http EXCEPT !.result = Some(GetResult(http.status, http.body))]
  /\ UNCHANGED <<store, saved, work, pc, cmd, index, todo, pend, sub, nkp, nonce, lost,
                 due, fatal, reset, io, mls>>

NextGet == DhtGet

SpecGet == InitGet /\ [][NextGet]_vars

\* ------------------------------------------------------------- properties
\* C1: across the successful invocations of an agent (no --reset) the saved
\* key_package_counter and the saved welcome_counter never decrease: every
\* write of the state file stores counters at least as large as the ones it
\* replaces.
C1_CountersNeverDecrease ==
  [][\A a \in Agents :
       /\ saved'[a].key_package_counter >= saved[a].key_package_counter
       /\ saved'[a].welcome_counter >= saved[a].welcome_counter]_vars

\* Both saved counters of an agent have advanced.
C1_Witness ==
  \E a \in Agents :
    /\ saved[a].key_package_counter > 0
    /\ saved[a].welcome_counter > 0

C3_FixedOrder ==
  [][/\ \A a \in Agents :
          /\ (pc'[a] = "A" /\ pc[a] # "A") => pc[a] = "idle"
          /\ (pc'[a] = "B" /\ pc[a] # "B") =>
                /\ pc[a] = "A"
                /\ get(key_package_key(work[a].key_package_counter)) = None
          /\ (pc'[a] = "C" /\ pc[a] # "C") =>
                /\ pc[a] = "B"
                /\ get(welcome_message_key(work[a].welcome_counter)) = None
          /\ (pc'[a] = "cmd" /\ pc[a] # "cmd") => pc[a] = "C" /\ todo[a] = <<>>
          /\ (pc'[a] \in PubPcs /\ pc[a] \notin PubPcs) => pc[a] = "cmd"
          /\ (pc'[a] = "save" /\ pc[a] # "save") => pc[a] \in PubPcs \cup {"cmd"}
          /\ saved'[a] # saved[a] => pc[a] = "save" /\ pend[a] = NoPend
     /\ store' # store => \E a \in Agents : pc[a] \in PubPcs /\ pc'[a] # pc[a]]_vars

\* An Add has published its commit and its welcome and is about to save.
C3_Witness ==
  \E a \in Agents :
    /\ pc[a] = "save"
    /\ cmd[a].name = "Add"
    /\ \E i \in 0..MaxWm : /\ welcome_message_key(i) \in DOMAIN store
                            /\ store[welcome_message_key(i)][1].members = work[a].groups[cmd[a].gid][1].members

\* Positions of an invocation whose SyncLoop has ended.
PostSync == {"cmd", "save"} \cup PubPcs

\* The agent holds gid: the gid is in its set and the group in its MLS storage.
Holds(st, gid) == InSeq(gid, st.gids) /\ st.groups[gid] # None

\* C4: two agents at the same epoch of a group derive the same cm key, and at
\* most one of their put_checked calls on that key returns success: no cm key
\* ever holds the commits of two successful put_checked calls.
C4_AtMostOneCommitWins ==
  \A k \in DOMAIN store : k[1] = "cm" => Len(store[k]) <= 1

\* C5 as stated: the invocation after a lost commit race leaves Phase C
\* holding the group at the winner's epoch (or one that extends it).
C5_LoserReachesWinnerEpoch ==
  \A a \in Agents :
    (lost[a] # None /\ pc[a] = "cmd") =>
      LET l == lost[a][1]
          w == Append(l.hist, get(CmKey(l.gid, l.hist))[1])
      IN /\ Holds(work[a], l.gid)
         /\ IsPrefix(w, work[a].groups[l.gid][1].hist)

\* C5: an agent whose commit put_checked finds the key taken halts without
\* merging and without saving; its next invocation leaves Phase C either
\* holding the group at an epoch that extends the winner's, or, when the
\* commits published from the contested epoch on remove the agent, without
\* the group.
C5_LoserFollowsWinner ==
  \A a \in Agents :
    /\ (lost[a] # None /\ pc[a] = "idle") =>
         LET l == lost[a][1] IN
         /\ work[a] = saved[a]
         /\ get(CmKey(l.gid, l.hist)) # None
         /\ get(CmKey(l.gid, l.hist))[1].by # my_pid(a)
         /\ Holds(saved[a], l.gid) => saved[a].groups[l.gid][1].hist # Append(l.hist, get(CmKey(l.gid, l.hist))[1])
    /\ (lost[a] # None /\ pc[a] = "cmd") =>
         LET l == lost[a][1]
             w == Append(l.hist, get(CmKey(l.gid, l.hist))[1])
         IN \/ /\ Holds(work[a], l.gid)
               /\ IsPrefix(w, work[a].groups[l.gid][1].hist)
            \/ /\ ~InSeq(l.gid, work[a].gids)
               /\ work[a].groups[l.gid] = None
               /\ RemovalPoint(my_pid(a), l.gid, l.hist) # None

\* The loser of a race has caught up with the winner's commit.
C5_Witness ==
  \E a \in Agents :
    /\ lost[a] # None
    /\ pc[a] = "cmd"
    /\ Holds(work[a], lost[a][1].gid)
    /\ Len(work[a].groups[lost[a][1].gid][1].hist) = Len(lost[a][1].hist) + 1

\* The welcome w of a first handshake: the creator of the first incarnation of
\* the group has added one member and nobody has committed since.
FirstHandshake(w) ==
  /\ Len(w.hist) = 2
  /\ w.hist[1].n = 0
  /\ w.hist[2].kind = "add"
  /\ get(CmKey(w.gid, w.hist)) = None

\* C6: after B advertises, A syncs, creates g and adds B, and B completes an
\* invocation that has read the welcome, B has g in its group-id set, A and B
\* hold g at the same epoch, and ExportSecret with one label and length gives
\* both the same value.
C6_Handshake ==
  \A b \in Agents : \A k \in DOMAIN store :
    (/\ k[1] = "wm"
     /\ FirstHandshake(store[k][1])
     /\ store[k][1].kp \in saved[b].kps
     /\ saved[b].welcome_counter > k[2]) =>
       LET w  == store[k][1]
           aa == w.hist[2].by
       IN /\ Holds(saved[b], w.gid)
          /\ Holds(work[aa], w.gid)
          /\ saved[b].groups[w.gid][1].hist = work[aa].groups[w.gid][1].hist
          /\ export_secret(w.gid, saved[b].groups[w.gid][1].hist, "x", 16)
               = export_secret(w.gid, work[aa].groups[w.gid][1].hist, "x", 16)

\* B has completed an invocation after the welcome of a first handshake.
C6_Witness ==
  \E b \in Agents : \E k \in DOMAIN store :
    /\ k[1] = "wm"
    /\ FirstHandshake(store[k][1])
    /\ store[k][1].kp \in saved[b].kps
    /\ saved[b].welcome_counter > k[2]
    /\ Holds(saved[b], store[k][1].gid)

\* C7: when the store holds a commit that removes the agent from a group it
\* holds as its invocation begins, the invocation leaves the SyncLoop, and
\* ends, without the group it was removed from: the gid is absent from its
\* set, unless the agent has since become a member anew (a later welcome, or
\* its own CreateGroup) and holds an epoch that does not lead to the removal.
C7_Eviction ==
  \A b \in Agents :
    pc[b] \in PostSync =>
      \A d \in due[b] :
        \/ ~InSeq(d[1], work[b].gids) /\ work[b].groups[d[1]] = None
        \/ /\ Holds(work[b], d[1])
           /\ work[b].groups[d[1]][1].active
           /\ ~IsPrefix(work[b].groups[d[1]][1].hist,
                        Append(d[2], get(CmKey(d[1], d[2]))[1]))

\* An invocation that began with its removal published is about to save
\* without the group.
C7_Witness ==
  \E b \in Agents :
    /\ pc[b] = "save"
    /\ \E d \in due[b] : ~InSeq(d[1], work[b].gids)

\* C8: in Phase B a fetched welcome that cannot be staged for the agent is not
\* fatal: welcome_counter goes past the slot, the group-id set and the groups
\* are unchanged, and Phase B goes on.
C8_UnstageableWelcome ==
  [][\A a \in Agents :
       LET r == get(welcome_message_key(work[a].welcome_counter)) IN
       (/\ pc[a] = "B"
        /\ r # None
        /\ ~CanStage(work[a], r[1])
        /\ (work'[a] # work[a] \/ pc'[a] # pc[a])) =>
          /\ work'[a].welcome_counter = work[a].welcome_counter + 1
          /\ work'[a].gids = work[a].gids
          /\ work'[a].groups = work[a].groups
          /\ pc'[a] = "B"]_vars

\* An agent in Phase B has counted a welcome it could not stage.
C8_Witness ==
  \E a \in Agents : \E k \in DOMAIN store :
    /\ k[1] = "wm"
    /\ pc[a] = "B"
    /\ ~CanStage(work[a], store[k][1])
    /\ work[a].welcome_counter > k[2]

\* C9: an Advertise that finds kp0..kp(N-1) occupied and kpN free writes
\* exactly one new store key, kpN, changes no other key, and then only saves.
C9_AdvertiseOneSlot ==
  [][\A k \in DOMAIN store' \ DOMAIN store :
       k[1] = "kp" =>
         /\ DOMAIN store' = DOMAIN store \cup {k}
         /\ \A j \in DOMAIN store : store'[j] = store[j]
         /\ \A i \in 0..(k[2] - 1) : key_package_key(i) \in DOMAIN store
         /\ \E a \in Agents : /\ pc[a] = "pubKp"
                              /\ pc'[a] = "save"
                              /\ store'[k] = <<pend[a].kp[1]>>]_vars

\* An Advertise that began at slot 0 has published at slot 1.
C9_Witness ==
  \E a \in Agents :
    /\ key_package_key(1) \in DOMAIN store
    /\ store[key_package_key(1)][1].pid = my_pid(a)
    /\ saved[a].key_package_counter = 0
    /\ pc[a] = "save"

\* C10: for every interleaving of two Advertise commands both key packages
\* end in two distinct kp slots and neither takes the place of the other:
\* every kp slot holds the one key package of one successful put_checked.
C10_DistinctSlots ==
  \A k \in DOMAIN store : k[1] = "kp" => Len(store[k]) = 1

\* Occurrences of x in the sequence s.
Count(x, s) == Cardinality({i \in 1..Len(s) : s[i] = x})

\* C11: a CreateGroup whose transformed id is in the group-id set fails and
\* changes neither the set nor the state file; otherwise the id is added; no
\* transformed id is ever twice in a group-id set.
C11_CreateGroupOnce ==
  [][\A a \in Agents :
       /\ \A g \in Gids : /\ Count(g, work'[a].gids) <= 1
                          /\ Count(g, saved'[a].gids) <= 1
       /\ (pc[a] = "cmd" /\ cmd'[a].name = "CreateGroup") =>
            LET gt == gid_transformed(cmd'[a].gid[1], a) IN
            /\ ~InSeq(gt, work[a].gids)
            /\ work'[a].gids = Append(work[a].gids, gt)
            /\ Holds(work'[a], gt)
            /\ saved'[a] = saved[a]
       /\ (pc[a] = "cmd" /\ pc'[a] = "idle") =>
            /\ saved'[a] = saved[a]
            /\ work'[a] = saved[a]]_vars

\* An agent that has saved the gid it created is at the dispatch again, where
\* a CreateGroup of the same label is a duplicate.
C11_Witness ==
  \E a \in Agents :
    /\ pc[a] = "cmd"
    /\ InSeq(gid_transformed("g", a), saved[a].gids)
    /\ InSeq(gid_transformed("g", a), work[a].gids)

\* C12: in every saved state, and in the in-memory state at every point of an
\* invocation, each gid of the group-id set has a group record under that gid
\* in the MLS storage map.
C12_GidHasGroup ==
  \A a \in Agents : \A g \in Gids :
    /\ InSeq(g, saved[a].gids) => saved[a].groups[g] # None
    /\ InSeq(g, work[a].gids) => work[a].groups[g] # None

\* One agent has saved the group it joined by a welcome and is its only
\* member; the other, its creator, has saved the handling of its eviction.
C12_Witness ==
  \E a \in Agents : \E b \in Agents \ {a} :
    /\ Holds(saved[a], gid_transformed("g", b))
    /\ saved[a].groups[gid_transformed("g", b)][1].members = {my_pid(a)}
    /\ saved[b].gids = <<>>
    /\ saved[b].groups[gid_transformed("g", b)] = None
    /\ saved[b].welcome_counter > 0

\* C13: in Phase A a fetched kp slot that does not deserialize, is not a key
\* package or fails validation halts the invocation: no later phase runs, no
\* command executes and the state file is not written.
C13_BadSlotFatal ==
  [][\A a \in Agents :
       LET r == get(key_package_key(work[a].key_package_counter)) IN
       (/\ pc[a] = "A"
        /\ r # None
        /\ r[1] \in BadSlots
        /\ (pc'[a] # pc[a] \/ work'[a] # work[a])) =>
          /\ pc'[a] = "idle"
          /\ cmd'[a] = NoCmd
          /\ saved'[a] = saved[a]
          /\ work'[a] = saved[a]]_vars

\* An invocation has ingested kp0 and halted on a corrupted kp1: its state
\* file still has key_package_counter 0.
C13_Witness ==
  \E a \in Agents :
    /\ pc[a] = "idle"
    /\ fatal[a] = "kp slot"
    /\ saved[a].key_package_counter = 0
    /\ get(key_package_key(0)) # None
    /\ get(key_package_key(0))[1] \notin BadSlots

\* C14: a get that fails during a SyncLoop phase stops only that phase: the
\* invocation goes on to the next phase or to the command.
C14_GetErrorStopsPhaseOnly ==
  [][\A a \in Agents :
       (fatal'[a] = "get" /\ fatal[a] # "get") =>
         \/ pc[a] = "A" /\ pc'[a] = "B"
         \/ pc[a] = "B" /\ pc'[a] = "C"
         \/ pc[a] = "C" /\ pc'[a] \in {"C", "cmd"}]_vars

\* The key package the agent has built last.
OwnLatest(st) == CHOOSE k \in st.kps : \A j \in st.kps : j.n <= k.n

\* An Advertise of agent a has built its key package and not yet saved.
Advertising(a) == pc[a] \in {"pubKp", "save"} /\ cmd[a].name = "Advertise"

\* C15 as stated: the state a successful Advertise saves has, under the
\* agent's own pid, a directory entry holding the freshly built key package.
C15_AdvertiseRecordsOwn ==
  \A a \in Agents :
    (Advertising(a) /\ pc[a] = "save") =>
      work[a].key_packages[my_pid(a)] = Some(OwnLatest(work[a]))

\* C15: Advertise keeps the private part of the freshly built key package in
\* the MLS storage and does not enter it into the directory: the state it
\* saves has no own-pid entry holding that package.  The entry appears when
\* Phase A of a later invocation has read the slot the package was published
\* in.
C15_AdvertiseLeavesDirectory ==
  \A a \in Agents :
    /\ Advertising(a) =>
         /\ work[a].kps # {}
         /\ work[a].key_packages[my_pid(a)] # Some(OwnLatest(work[a]))
    /\ \A k \in DOMAIN store :
         (/\ k[1] = "kp"
          /\ store[k][1].pid = my_pid(a)
          /\ saved[a].key_package_counter > k[2]) =>
            /\ saved[a].key_packages[my_pid(a)] # None
            /\ saved[a].key_packages[my_pid(a)][1].n >= store[k][1].n

\* A second Advertise is about to save: the directory holds the agent's first
\* package, read in Phase A, and not the one just published.
C15_Witness ==
  \E a \in Agents :
    /\ Advertising(a)
    /\ pc[a] = "save"
    /\ work[a].key_packages[my_pid(a)] # None
    /\ work[a].key_packages[my_pid(a)][1].n < OwnLatest(work[a]).n

\* The two counters of an agent state.
Counters(st) == <<st.key_package_counter, st.welcome_counter>>

C17_SyncLoopIdempotent ==
  \A a \in Agents : \A st \in {saved[a], work[a]} :
    LET first == SyncLoop(a, st) IN
    first # None =>
      LET second == SyncLoop(a, first[1]) IN
      /\ second # None
      /\ Counters(second[1]) = Counters(first[1])
      /\ second[1].key_packages = first[1].key_packages
      /\ second[1].gids = first[1].gids
      /\ second[1].groups = first[1].groups

\* The invocation that is at its command has run the pass the operator
\* computes from its state file: it fetched a key package, joined a group by
\* a welcome and merged a commit into it.
C17_Witness ==
  \E a \in Agents : \E g \in Gids :
    /\ pc[a] = "cmd"
    /\ SyncLoop(a, saved[a]) = Some(work[a])
    /\ work[a].key_package_counter > saved[a].key_package_counter
    /\ work[a].welcome_counter > saved[a].welcome_counter
    /\ saved[a].groups[g] = None
    /\ Holds(work[a], g)
    /\ get(welcome_message_key(saved[a].welcome_counter)) # None
    /\ get(welcome_message_key(saved[a].welcome_counter))[1].hist
         # work[a].groups[g][1].hist

\* C19: an invocation started with --reset begins from the new agent state
\* (both counters 0, empty directory, empty gid set, empty MLS storage)
\* whatever the state file holds, and leaves the state file alone at its
\* start; up to its command no group is loadable, none of the state file's
\* in particular.
C19_ResetStartsEmpty ==
  [][\A a \in Agents :
       /\ (pc[a] = "idle" /\ pc'[a] # "idle" /\ reset'[a]) =>
            /\ work'[a] = MySgmStateNew
            /\ Counters(work'[a]) = <<0, 0>>
            /\ saved'[a] = saved[a]
       /\ (reset'[a] /\ pc'[a] \in {"A", "B", "C", "cmd"}) =>
            /\ work'[a].gids = <<>>
            /\ \A g \in Gids : work'[a].groups[g] = None]_vars

\* An agent whose state file holds a group and counted key packages is at the
\* command of a --reset invocation: it has fetched the key packages again and
\* holds no group.
C19_Witness ==
  \E a \in Agents :
    /\ reset[a]
    /\ pc[a] = "cmd"
    /\ Holds(saved[a], gid_transformed("g", a))
    /\ saved[a].key_package_counter > 0
    /\ work[a].key_package_counter > 0
    /\ work[a].gids = <<>>

\* C20: the DHT adapter's put_checked: when its first get returns a value it
\* answers "Key already exists" and makes no further call (no write);
\* otherwise it puts; a put that succeeds gives Ok; after a put that fails it
\* reads the key again and gives Ok exactly when that get returns a value,
\* else the put's error.
C20_DhtPutChecked ==
  \A a \in Agents :
    LET c == io[a].calls
        res == io[a].res IN
    res # "-" =>
      IF c[1] = "some"
      THEN Len(c) = 1 /\ res = "Key already exists"
      ELSE IF c[2] = "ok"
      THEN Len(c) = 2 /\ res = "Ok"
      ELSE /\ Len(c) = 3
           /\ res \in {"Ok", "put error"}
           /\ res = "Ok" <=> c[3] = "some"

\* A put_checked found the key empty, its put failed, its second get returned
\* a value, and it answered Ok: the advertiser is about to save.
C20_Witness ==
  \E a \in Agents :
    /\ io[a] = [calls |-> <<"none", "err", "some">>, res |-> "Ok"]
    /\ pc[a] = "save"
    /\ cmd[a].name = "Advertise"

\* C18: each SyncLoop phase terminates: an agent in Phase A, B or C leaves it.
\* Phase A and Phase B end only at an absent slot; Phase C leaves a group
\* only at a missing commit key, at an eviction or at a commit it cannot
\* process. In every behaviour of the model the store changes finitely often.
C18_PhasesTerminate ==
  /\ \A a \in Agents :
       /\ (pc[a] = "A") ~> (pc[a] # "A")
       /\ (pc[a] = "B") ~> (pc[a] # "B")
       /\ (pc[a] = "C") ~> (pc[a] # "C")
  /\ [][\A a \in Agents :
          /\ (pc[a] = "A" /\ pc'[a] = "B") =>
               get(key_package_key(work[a].key_package_counter)) = None
          /\ (pc[a] = "B" /\ pc'[a] = "C") =>
               get(welcome_message_key(work[a].welcome_counter)) = None
          /\ (pc[a] = "C" /\ pc'[a] = "C" /\ todo'[a] # todo[a]) =>
               LET gid == Head(todo[a])
                   g == work[a].groups[gid][1]
                   r == get(commit_key(gid, g)) IN
               \/ r = None
               \/ ~InSeq(gid, work'[a].gids)
               \/ ~process_message_ok(r[1], my_pid(a))]_vars

\* Phase C is at a group whose next commit is in the store and can be
\* processed.
C18_Witness ==
  \E a \in Agents :
    /\ pc[a] = "C"
    /\ todo[a] # <<>>
    /\ work[a].groups[Head(todo[a])] # None
    /\ commit_key_ok(work[a].groups[Head(todo[a])][1])
    /\ LET r == get(commit_key(Head(todo[a]), work[a].groups[Head(todo[a])][1])) IN
         r # None /\ process_message_ok(r[1], my_pid(a))

\* An Add the agent could be given whose pid has no entry in its directory.
AddUnknown(a, c) ==
  /\ c.name = "Add"
  /\ work[a].groups[c.gid] # None
  /\ work[a].key_packages[c.who] = None

\* C21: Group Add with a pid that has no entry in the directory halts fatally
\* before a commit exists: the command yields a fatal error with nothing to
\* publish, no invocation goes on as that Add, and the invocation that ends at
\* its dispatch leaves the store (no cm key, no wm key) and the state file
\* (the group's epoch) as they were.
C21_AddUnknownPid ==
  [][\A a \in Agents :
       pc[a] = "cmd" =>
         /\ \A c \in Cmds(a) :
              AddUnknown(a, c) =>
                /\ Execute(a, work[a], c) = Result(work[a], NoPend, "panic")
                /\ cmd'[a] # c
         /\ pc'[a] = "idle" =>
              /\ store' = store
              /\ saved' = saved
              /\ work'[a] = saved[a]]_vars

\* The founder of a group is at its command, the key package of the other
\* agent is in the store and not in the founder's directory.
C21_Witness ==
  \E a \in Agents : \E c \in Cmds(a) :
    /\ pc[a] = "cmd"
    /\ AddUnknown(a, c)
    /\ work[a].groups[c.gid][1].active
    /\ c.who \notin work[a].groups[c.gid][1].members
    /\ \E k \in DOMAIN store : k[1] = "kp" /\ store[k][1].pid = c.who

\* The group records of gid the agents hold, in their state files or in
\* memory.
Records(gid) ==
  {st.groups[gid][1] : st \in {x \in {saved[a] : a \in Agents} \cup {work[a] : a \in Agents} :
                                 x.groups[gid] # None}}

\* The commits a record has applied are the first values of the cm keys of
\* its earlier epochs, one after the other.
InStoreOrder(gid, g) ==
  \A i \in 1..(Len(g.hist) - 1) :
    LET r == get(CmKey(gid, SubSeq(g.hist, 1, i))) IN
    r # None /\ r[1] = g.hist[i + 1]

\* C22: for a single group every member applies the commits in the same total
\* order, the order of the store: of two records of one group (one creation)
\* one history is a prefix of the other, and every applied commit is the one
\* the store holds under the cm key of the epoch before it.
C22_SameCommitOrder ==
  \A gid \in Gids : \A g \in Records(gid) :
    /\ InStoreOrder(gid, g)
    /\ \A h \in Records(gid) :
         g.hist[1] = h.hist[1] => IsPrefix(g.hist, h.hist) \/ IsPrefix(h.hist, g.hist)

\* C23: key-package ingestion is deterministic in the store contents: when a
\* Phase A ends, the directory and key_package_counter are the ones a Phase A
\* from key_package_counter = 0 and an empty directory yields against the
\* store as it stands, whatever state the agent began with and however its
\* runs were spread over invocations; so two runs from 0 against one store
\* agree.
C23_PhaseADeterministic ==
  [][\A a \in Agents :
       (pc[a] = "A" /\ pc'[a] = "B") =>
         LET fresh == SyncA(MySgmStateNew) IN
         /\ fresh # None
         /\ work'[a].key_package_counter = fresh[1].key_package_counter
         /\ work'[a].key_packages = fresh[1].key_packages]_vars

\* An agent started with --reset has run Phase A from 0 over the slots it had
\* counted before, and another agent that counted them in earlier runs holds
\* the same directory.
C23_Witness ==
  \E a \in Agents : \E b \in Agents \ {a} :
    /\ reset[a]
    /\ pc[a] = "B"
    /\ saved[a].key_package_counter > 0
    /\ work[a].key_package_counter = saved[a].key_package_counter
    /\ work[a].key_packages = saved[a].key_packages
    /\ saved[b].key_package_counter = work[a].key_package_counter
    /\ saved[b].key_packages = work[a].key_packages
    /\ \E p \in Agents : work[a].key_packages[p] # None

\* The commands that only print: Groups (as Me and Agents, main.rs 379-391)
\* and ExportSecret (as Members, main.rs 461-477).
Printing == {"Groups", "ExportSecret"}

\* C24: the printing commands write nothing to the store: such an invocation
\* is never at a put_checked and has nothing to publish, and the command
\* leaves the state as the SyncLoop left it. Run again with the store
\* unchanged since the invocation began, the SyncLoop and the command leave
\* the state that is about to be saved as it is, so the second run saves what
\* the first saved.
C24_PrintingCommands ==
  \A a \in Agents :
    cmd[a].name \in Printing =>
      /\ pc[a] = "save"
      /\ pend[a] = NoPend
      /\ Execute(a, work[a], cmd[a]) = Result(work[a], NoPend, "save")
      /\ SyncLoop(a, saved[a]) = Some(work[a]) => SyncLoop(a, work[a]) = Some(work[a])

\* An ExportSecret is about to save a state its SyncLoop has moved (a commit
\* was merged), against the store as it stands.
C24_Witness ==
  \E a \in Agents :
    /\ cmd[a].name = "ExportSecret"
    /\ pc[a] = "save"
    /\ SyncLoop(a, saved[a]) = Some(work[a])
    /\ saved[a].groups[cmd[a].gid] # None
    /\ work[a].groups[cmd[a].gid][1].hist # saved[a].groups[cmd[a].gid][1].hist

\* The kp slots below n that carry a package of pid p, and the package of the
\* highest of them.
SlotsOf(p, n) ==
  {i \in 0..(n - 1) : get(key_package_key(i)) # None /\ get(key_package_key(i))[1].pid = p}

LatestOf(p, n) ==
  IF SlotsOf(p, n) = {} THEN None
  ELSE get(key_package_key(CHOOSE i \in SlotsOf(p, n) : \A j \in SlotsOf(p, n) : j <= i))

\* C25: when Phase A ends, key_package_counter is the index of the first absent
\* kp slot at or above the value the invocation began with, every slot below
\* it holds a package, and the directory has for each pid the package of the
\* highest slot below the counter that carries the pid, and no entry for a
\* pid no slot carries.
C25_PhaseAResult ==
  [][\A a \in Agents :
       (pc[a] = "A" /\ pc'[a] = "B") =>
         LET n == work'[a].key_package_counter
             start == IF reset[a] THEN 0 ELSE saved[a].key_package_counter IN
         /\ start <= n
         /\ get(key_package_key(n)) = None
         /\ \A i \in 0..(n - 1) : get(key_package_key(i)) # None
         /\ \A p \in Agents : work'[a].key_packages[p] = LatestOf(p, n)]_vars

\* An agent has advertised twice; a Phase A that began below the two slots
\* has ended above them, and the directory holds the later package.
C25_Witness ==
  \E a \in Agents : \E b \in Agents :
    /\ pc[a] = "B"
    /\ Cardinality(SlotsOf(my_pid(b), work[a].key_package_counter)) = 2
    /\ saved[a].key_package_counter = 0
    /\ work[a].key_packages[my_pid(b)] = LatestOf(my_pid(b), 2)
    /\ work[a].key_packages[my_pid(b)][1].n = 1

\* The data string of the first element that has a string data field.
FirstData(elems) ==
  LET I == {i \in 1..Len(elems) : elems[i].t = "string"} IN
  IF I = {} THEN None ELSE Some(elems[CHOOSE i \in I : \A j \in I : i <= j].s)

\* C26 as stated: a non-2xx response yields an error carrying the status, an
\* empty body None, and a JSON array or object with a string data field the
\* base64 decoding of the first such field.
C26_GetDecodesFirstData ==
  http.result # None =>
    LET res == http.result[1]
        d == FirstData(http.body.elems) IN
    /\ http.status \notin 200..299 => res = GetErr("HTTP status", http.status)
    /\ (http.status \in 200..299 /\ http.body.kind = "empty") => res = GetNone
    /\ (http.status \in 200..299 /\ http.body.kind \in {"array", "object"} /\ d # None) =>
         /\ Base64Decode(d[1]) # None
         /\ res = GetSome(Base64Decode(d[1])[1])

\* C26, amended: a non-2xx response yields an error carrying the status; an
\* empty body None; a body that is not JSON an error. Of a JSON array the data
\* string is the data field of the first element that has a string data
\* field, of a JSON object its data field if that is a string. Without such a
\* string, or with an empty one, get returns None; a string that is not
\* base64 yields an error; any other string yields its base64 decoding.
C26_GetResult ==
  http.result # None =>
    LET res == http.result[1]
        d == FirstData(http.body.elems) IN
    IF http.status \notin 200..299 THEN res = GetErr("HTTP status", http.status)
    ELSE CASE http.body.kind = "empty" -> res = GetNone
           [] http.body.kind = "invalid" -> res.r = "err"
           [] http.body.kind = "other" -> res = GetNone
           [] OTHER ->
                IF d = None \/ d = Some("") THEN res = GetNone
                ELSE IF Base64Decode(d[1]) = None THEN res.r = "err"
                ELSE res = GetSome(Base64Decode(d[1])[1])

\* get has answered None for an array whose first data string is empty and
\* whose second is the base64 text of a value.
C26_Witness ==
  /\ http.status = 200
  /\ http.body = [kind |-> "array",
                  elems |-> <<[t |-> "string", s |-> ""], [t |-> "string", s |-> "QQ=="]>>]
  /\ http.result = Some(GetNone)

\* The values the store holds under a key.
Values(key) == IF key \in DOMAIN store THEN {store[key][i] : i \in 1..Len(store[key])} ELSE {}

\* Every commit a record has applied is in the store under the cm key of the
\* epoch before it.
Published(gid, g) ==
  \A i \in 1..(Len(g.hist) - 1) : g.hist[i + 1] \in Values(CmKey(gid, SubSeq(g.hist, 1, i)))

\* C27: in Add, Remove and Update the commit is published at the cm key of the
\* pre-commit epoch before it is merged (while it is being published the
\* group is at that epoch), the welcome is published only after the merge
\* (the group has applied the commit), the state is saved after both, and no
\* state, saved or in memory, has applied a commit that is absent from the
\* store.
C27_PublishBeforeAdvance ==
  \A a \in Agents :
    /\ pc[a] = "pubCm" =>
         /\ cmd[a].name \in CommitCmds
         /\ pend[a].commit # None
         /\ work[a].groups[cmd[a].gid] = saved[a].groups[cmd[a].gid]
            \/ Published(cmd[a].gid, work[a].groups[cmd[a].gid][1])
    /\ pc[a] = "pubWm" =>
         LET g == work[a].groups[cmd[a].gid][1]
             w == pend[a].welcome[1] IN
         /\ pend[a].commit = None
         /\ g.hist = w.hist
         /\ g.hist[Len(g.hist)] \in Values(CmKey(cmd[a].gid, SubSeq(g.hist, 1, Len(g.hist) - 1)))
    /\ \A gid \in Gids :
         /\ saved[a].groups[gid] # None => Published(gid, saved[a].groups[gid][1])
         /\ work[a].groups[gid] # None => Published(gid, work[a].groups[gid][1])
\* The answer a's last Phase C step ended on, while a is still in Phase C.
Surfaced(a, at, err) ==
  /\ pc[a] = "C"
  /\ mls[a].at = at
  /\ mls[a].err = err

\* C28: in Phase C, a "UseAfterEviction" error at any step of the handling of
\* a fetched commit (processing the message or merging) removes the gid from
\* the group-id set and ends the processing of that group.
C28_UseAfterEvictionRemovesGid ==
  \A a \in Agents :
    (\E at \in {"process", "merge"} : Surfaced(a, at, "UseAfterEviction")) =>
      /\ ~InSeq(mls[a].gid, work[a].gids)
      /\ ~InSeq(mls[a].gid, todo[a])

\* C29: an eviction detected in Phase C, by the "evict" error of the commit
\* key or by the "UseAfterEviction" error of the merge, destroys the group
\* locally: its gid is not in the group-id set and the MLS storage holds no
\* record of the group.
C29_EvictionDestroysGroup ==
  \A a \in Agents :
    (Surfaced(a, "export", "evict") \/ Surfaced(a, "merge", "UseAfterEviction")) =>
      /\ ~InSeq(mls[a].gid, work[a].gids)
      /\ work[a].groups[mls[a].gid] = None

\* A group of state st is at the head of its commit chain: the store holds
\* nothing under the commit key of its epoch.
AtHead(st, gid) ==
  /\ st.groups[gid] # None
  /\ commit_key_ok(st.groups[gid][1])
  /\ get(commit_key(gid, st.groups[gid][1])) = None

\* C30: after a SyncLoop against an unchanged store, every group of the
\* group-id set is at the head of its commit chain when the command starts,
\* the groups joined by a welcome in Phase B of the same invocation included.
C30_SyncReachesHead ==
  \A a \in Agents :
    pc[a] = "idle" =>
      LET r == SyncLoop(a, saved[a]) IN
      r # None => \A i \in 1..Len(r[1].gids) : AtHead(r[1], r[1].gids[i])

\* C31: no store key is ever overwritten or removed: once a key holds a
\* value, no step of any agent, a put_checked whose first get fails included,
\* changes what is stored under that key.
C31_KeysWriteOnce ==
  [][\A k \in DOMAIN store : k \in DOMAIN store' /\ store'[k] = store[k]]_vars

\* The slots of a namespace are occupied without a gap.
Prefix(ns) ==
  \A k \in DOMAIN store : k[1] = ns => \A i \in 0..(k[2] - 1) : <<ns, i>> \in DOMAIN store

\* The occupied slots of a namespace.
Occupied(ns) == Cardinality({k \in DOMAIN store : k[1] = ns})

\* C32: with an atomic put_checked the occupied kp slots are kp0..kp(n-1) and
\* the occupied wm slots wm0..wm(m-1), and no agent's key_package_counter
\* exceeds n nor its welcome_counter m, in the state file or in memory.
C32_SlotsContiguous ==
  /\ Prefix("kp")
  /\ Prefix("wm")
  /\ \A a \in Agents : \A st \in {saved[a], work[a]} :
       /\ st.key_package_counter <= Occupied("kp")
       /\ st.welcome_counter <= Occupied("wm")

\* Two key packages and two welcomes are stored, and an Add whose
\* welcome_counter is 0 has written its welcome to wm1 after wm0 was refused.
C32_Witness ==
  /\ Occupied("kp") = 2
  /\ Occupied("wm") = 2
  /\ \E a \in Agents :
       /\ pc[a] = "save"
       /\ cmd[a].name = "Add"
       /\ work[a].welcome_counter = 0
       /\ index[a] = 1
       /\ get(welcome_message_key(1)) # None
       /\ get(welcome_message_key(1))[1].gid = cmd[a].gid

\* C33: whenever put_checked(key, v) returns Ok to its caller, v is stored
\* under key; a put_checked that succeeds by the second get after a failed
\* put included.
C33_OkMeansStored ==
  [][\A a \in Agents :
       (pc[a] \in PubPcs /\ io[a].res = "-" /\ io'[a].res = "Ok") =>
         LET k == PutKey(a)
             v == PutValue(a) IN
         /\ k \in DOMAIN store'
         /\ \E i \in 1..Len(store'[k]) : store'[k][i] = v]_vars

\* C34: a commit command is all-or-nothing across store and state file: no
\* agent whose invocation has ended holds in its state file a group at the
\* epoch under whose commit key the store has a commit of that agent.
C34_AllOrNothing ==
  \A a \in Agents :
    pc[a] = "idle" =>
      \A gid \in Gids :
        saved[a].groups[gid] # None =>
          \A c \in Values(commit_key(gid, saved[a].groups[gid][1])) : c.by # my_pid(a)

\* The kp slots that hold a value Phase A cannot ingest.
BadKeys == {k \in DOMAIN store : k[1] = "kp" /\ store[k][1] \in BadSlots}

\* An invalid kp slot lies at or above the saved counter of agent a.
Blocked(a) == \E k \in BadKeys : saved[a].key_package_counter <= k[2]

====
